---- MODULE Spec2Model ----
(***************************************************************************)
(* Call-graph viewer of method-call-ui: the React component of             *)
(* src/fe/src/App.js folds call sequences into the `elements` list that    *)
(* Cytoscape draws.  Strings are sequences of one-character strings, so    *)
(* that the character-level rewriting of generateNodeId is computed and    *)
(* not assumed.                                                            *)
(***************************************************************************)
EXTENDS Integers, Sequences, FiniteSets, TLC

\* ------------------------------------------------------------------ bounds

\* Handler invocations (socket messages, button clicks) in one run.
MaxSteps == 2

\* Submissions posted to the gateway in one run.
MaxPosts == 2

\* Largest occurrence count handed to the stylesheet.
MaxCount == 40

\* Clicks on Export as Mermaid in one run.
MaxExports == 2

\* Frames handed to addStackFrameToGraph in one run, over all sequences.
MaxFrames == 4

\* Length of a file, structure or method name in the identity specifications.
MaxNameLen == 1

\* ----------------------------------------------------------------- strings

Letters ==
    {"a","b","c","d","e","f","g","h","i","j","k","l","m",
     "n","o","p","q","r","s","t","u","v","w","x","y","z",
     "A","B","C","D","E","F","G","H","I","J","K","L","M",
     "N","O","P","Q","R","S","T","U","V","W","X","Y","Z"}

DigitChars == <<"0","1","2","3","4","5","6","7","8","9">>

\* The class [a-zA-Z0-9] of the regular expressions of App.js.
Alnum == Letters \cup {DigitChars[i] : i \in 1..10}

\* What a template literal prints for a missing field.
Undefined == <<"u", "n", "d", "e", "f", "i", "n", "e", "d">>

\* Number -> its decimal text, as a template literal prints it.
RECURSIVE DecimalText(_)
DecimalText(n) ==
    IF n < 10 THEN <<DigitChars[n + 1]>>
    ELSE DecimalText(n \div 10) \o <<DigitChars[(n % 10) + 1]>>

\* `${obj.k}`: the field's text, "undefined" when the object lacks the field.
TextOf(obj, k) ==
    IF k \notin DOMAIN obj THEN Undefined
    ELSE IF k = "lineNumber" THEN DecimalText(obj[k])
    ELSE obj[k]

\* str.replace(/[^a-zA-Z0-9]/g, '_')
ReplaceNonAlnum(s) ==
    [i \in 1..Len(s) |-> IF s[i] \in Alnum THEN s[i] ELSE "_"]

\* A node id that also carries the line number, as older versions of the
\* component computed it.
generateNodeIdWithLine(frame) ==
    ReplaceNonAlnum(TextOf(frame, "file") \o <<"-">> \o TextOf(frame, "lineNumber")
                    \o <<"-">> \o TextOf(frame, "structureName")
                    \o <<"-">> \o TextOf(frame, "methodName"))

generateNodeId(frame) ==
    ReplaceNonAlnum(TextOf(frame, "file") \o <<"-">> \o TextOf(frame, "structureName")
                    \o <<"-">> \o TextOf(frame, "methodName"))

\* The arguments are the texts the template literal interpolates; `count` is
\* accepted and not printed.
generateLabelWithCount(file, lineNumber, structureName, methodName, count) ==
    file \o <<":">> \o lineNumber \o <<"\n">> \o structureName \o <<":">>
         \o methodName \o <<"(", ")">>

\* `${nodeId}->${nextNodeId}`
\* An edge id that is the id of the edge's source.
EdgeIdOfSource(nodeId, nextNodeId) == nodeId

\* `${nodeId}->${nextNodeId}`
EdgeId(nodeId, nextNodeId) == nodeId \o <<"-", ">">> \o nextNodeId

\* ------------------------------------------------------------------ frames

Frame(file, line, structure, method) ==
    [file |-> file, lineNumber |-> line, structureName |-> structure,
     methodName |-> method]

\* The two frames of the Add Test Nodes button.
TestFrame1 == Frame(<<"t","e","s","t",".","j","s">>, 1, <<"T","e","s","t">>,
                    <<"t","e","s","t">>)
TestFrame2 == Frame(<<"t","e","s","t","2",".","j","s">>, 2,
                    <<"T","e","s","t","2">>, <<"t","e","s","t","2">>)
testData == [sequence |-> [array |-> TRUE, items |-> <<TestFrame1, TestFrame2>>]]

\* Frames producers send: one method seen at two line numbers, a second
\* method, and a third one whose file name differs from the first only in a
\* punctuation character.
FrameA1 == Frame(<<"a",".","b">>, 1, <<"S">>, <<"m">>)
FrameA2 == Frame(<<"a",".","b">>, 2, <<"S">>, <<"m">>)
FrameB  == Frame(<<"b">>, 1, <<"S">>, <<"m">>)
FrameD  == Frame(<<"a","_","b">>, 1, <<"S">>, <<"m">>)
FrameUniverse == {FrameA1, FrameA2, FrameB, FrameD}

\* Array elements a producer can also send: null, and a frame object without
\* a methodName.
Null == [null |-> TRUE]
FrameNoMethod == [file |-> <<"b">>, lineNumber |-> 1, structureName |-> <<"S">>]

\* (file, structureName, methodName): the method a frame belongs to.
Triple(frame) == <<frame.file, frame.structureName, frame.methodName>>

RECURSIVE SeqsOfLen(_, _)
SeqsOfLen(S, n) ==
    IF n = 0 THEN {<<>>}
    ELSE {Append(s, x) : s \in SeqsOfLen(S, n - 1), x \in S}

\* The concatenation of a list of lists.
RECURSIVE Flatten(_)
Flatten(sequences) ==
    IF sequences = <<>> THEN <<>>
    ELSE Head(sequences) \o Flatten(Tail(sequences))

SeqsUpTo(S, n) == UNION {SeqsOfLen(S, k) : k \in 0..n}

\* ----------------------------------------------------------------- payloads

\* A message body: an object whose `sequence` holds an array of frames, an
\* object whose `sequence` is not an array, or an object without `sequence`.
ArrayPayload(items) == [sequence |-> [array |-> TRUE, items |-> items]]
TracedPayload(items, traceId) ==
    [sequence |-> [array |-> TRUE, items |-> items], traceId |-> traceId]
NonArrayPayload == [sequence |-> [array |-> FALSE, items |-> <<>>]]
NoSequencePayload == [traceId |-> <<"t">>]
NoMessage == [none |-> TRUE]

\* A validation that looks for the `sequence` field only.
MissingSequence(stackFrameData) == "sequence" \notin DOMAIN stackFrameData

\* !stackFrameData || !stackFrameData.sequence || !Array.isArray(...)
InvalidData(stackFrameData) ==
    \/ "sequence" \notin DOMAIN stackFrameData
    \/ ~stackFrameData.sequence.array

\* ------------------------------------------------------------ the merge

\* The frame fields a node's data copies; a field the frame lacks reads as
\* undefined from the node too.
FrameFields == {"file", "lineNumber", "structureName", "methodName"}

\* frame.file raises a TypeError when the array element is null; forEach
\* stops there, before setElements is reached.
Throws(sequence) == \E index \in 1..Len(sequence) : sequence[index] = Null

\* The elements addStackFrameToGraph builds for one frame: its node, then
\* the edge to the next frame when there is one.
ElementsOfFrame(sequence, index) ==
    LET frame == sequence[index]
        nodeId == generateNodeId(frame)
        label == generateLabelWithCount(TextOf(frame, "file"),
                                        TextOf(frame, "lineNumber"),
                                        TextOf(frame, "structureName"),
                                        TextOf(frame, "methodName"), 1)
        node == [data |-> [k \in {"id", "label", "count"}
                                   \cup (DOMAIN frame \cap FrameFields) |->
                             IF k = "id" THEN nodeId
                             ELSE IF k = "label" THEN label
                             ELSE IF k = "count" THEN 1
                             ELSE frame[k]]]
    IN  IF index < Len(sequence)
        THEN LET nextNodeId == generateNodeId(sequence[index + 1])
             IN  <<node, [data |-> [id |-> EdgeId(nodeId, nextNodeId),
                                    source |-> nodeId,
                                    target |-> nextNodeId,
                                    count |-> 1]]>>
        ELSE <<node>>

RECURSIVE NewElementsFrom(_, _)
NewElementsFrom(sequence, index) ==
    IF index > Len(sequence) THEN <<>>
    ELSE ElementsOfFrame(sequence, index) \o NewElementsFrom(sequence, index + 1)

\* A forEach that stops before the node of the last frame.
NewElementsLastNodeSkipped(sequence) ==
    SubSeq(NewElementsFrom(sequence, 1), 1, Len(NewElementsFrom(sequence, 1)) - 1)

\* newElements of addStackFrameToGraph: sequence.forEach over the frames.
NewElements(sequence) == NewElementsFrom(sequence, 1)

IndicesOf(els, id) == {i \in 1..Len(els) : els[i].data.id = id}

Min(S) == CHOOSE x \in S : \A y \in S : x <= y
Max(S) == CHOOSE x \in S : \A y \in S : x >= y

\* { ...existingEl, data: { ...existingEl.data, count, label } }
Incremented(existingEl) ==
    LET d == existingEl.data
        updatedCount == d.count + 1
        label == generateLabelWithCount(TextOf(d, "file"), TextOf(d, "lineNumber"),
                                        TextOf(d, "structureName"),
                                        TextOf(d, "methodName"), updatedCount)
    IN  [data |-> [k \in DOMAIN d \cup {"count", "label"} |->
                     IF k = "count" THEN updatedCount
                     ELSE IF k = "label" THEN label
                     ELSE d[k]]]

\* The body of newElements.forEach inside the setElements updater.  The
\* lookup map is built from prevElements once (Map.set keeps the last element
\* of an id); findIndex gives the first element of the id in the new list.
MergeOne(prevElements, updatedElements, newEl) ==
    LET known == IndicesOf(prevElements, newEl.data.id)
    IN  IF known # {}
        THEN LET existingEl == prevElements[Max(known)]
                 index == IndicesOf(updatedElements, newEl.data.id)
             IN  IF index # {}
                 THEN [updatedElements EXCEPT ![Min(index)] = Incremented(existingEl)]
                 ELSE updatedElements
        ELSE Append(updatedElements, newEl)

RECURSIVE MergeFrom(_, _, _, _)
MergeFrom(prevElements, updatedElements, newElements, k) ==
    IF k > Len(newElements) THEN updatedElements
    ELSE MergeFrom(prevElements,
                   MergeOne(prevElements, updatedElements, newElements[k]),
                   newElements, k + 1)

\* An updater that builds the new list from the incoming elements alone.
MergeElementsRebuild(prevElements, newElements) ==
    MergeFrom(prevElements, <<>>, newElements, 1)

\* The updater passed to setElements: prevElements => updatedElements.
MergeElements(prevElements, newElements) ==
    MergeFrom(prevElements, prevElements, newElements, 1)

\* ------------------------------------------------------------------- state

VARIABLES
    elements,     \* useState([]): the element list of the last render
    updateQueue,  \* setElements calls made since the last render, in call order
    lastMessage,  \* useState(null): the last message the socket delivered
    threw,        \* whether a handler has ended in an uncaught TypeError
    log,          \* history: the frame lists handed to the merge since the last reset
    steps,        \* handler invocations so far
    frames        \* frames handed to addStackFrameToGraph so far

viewer == <<elements, updateQueue, lastMessage, threw, log, steps, frames>>

\* An update that carries the list computed from the rendered state, as a
\* setElements(value) call made from a closure over `elements` does.
ValueUpdate(renderedElements, newElements) ==
    [fn |-> FALSE, value |-> MergeElements(renderedElements, newElements)]

\* setElements(prevElements => ...): the update is the function, which closes
\* over newElements only.
FunctionalUpdate(renderedElements, newElements) ==
    [fn |-> TRUE, newElements |-> newElements]

\* setElements(prevElements => prevElements): an update that keeps the list.
KeepUpdate == [fn |-> TRUE, newElements |-> <<>>]

\* setElements([])
ResetUpdate == [fn |-> FALSE, value |-> <<>>]

\* An update that stops after the first element of newElements, as a render
\* taken in the middle of the updater's loop would show it.
ApplyFirstElement(state, update) ==
    IF update.fn THEN MergeElements(state, SubSeq(update.newElements, 1, 1))
    ELSE update.value

\* One queued update applied to the state it is handed.
ApplyUpdate(state, update) ==
    IF update.fn THEN MergeElements(state, update.newElements) ELSE update.value

\* The queued updates applied in call order, each to the result of the one
\* before it.
RECURSIVE ProcessQueue(_, _, _)
ProcessQueue(state, queue, k) ==
    IF k > Len(queue) THEN state
    ELSE ProcessQueue(ApplyUpdate(state, queue[k]), queue, k + 1)

ViewerInit ==
    /\ elements = <<>>
    /\ updateQueue = <<>>
    /\ lastMessage = NoMessage
    /\ threw = FALSE
    /\ log = <<>>
    /\ steps = 0
    /\ frames = 0

\* addStackFrameToGraph(stackFrameData): invalid data returns early; a null
\* element ends the call in a TypeError before any update is queued; valid
\* data builds newElements and queues the functional update.
addStackFrameToGraph(stackFrameData) ==
    IF InvalidData(stackFrameData)
    THEN UNCHANGED <<updateQueue, threw, log, frames>>
    ELSE LET sequence == stackFrameData.sequence.items
             newElements == NewElements(sequence)
         IN  IF Throws(sequence)
             THEN /\ threw' = TRUE
                  /\ UNCHANGED <<updateQueue, log, frames>>
             ELSE /\ frames + Len(sequence) <= MaxFrames
                  /\ frames' = frames + Len(sequence)
                  /\ updateQueue' = Append(updateQueue,
                                           FunctionalUpdate(elements, newElements))
                  /\ log' = Append(log, sequence)
                  /\ UNCHANGED threw

\* The frame lists of each length a producer can send.
SequencesOfLen == [n \in 0..MaxFrames |-> SeqsOfLen(FrameUniverse, n)]

\* The messages a socket can deliver while `room` more frames may be folded.
Payloads(room) ==
    {ArrayPayload(s) : s \in UNION {SequencesOfLen[n] : n \in 0..room}}
        \cup {NonArrayPayload, NoSequencePayload}

\* socket.on('newStackFrame', data => { setLastMessage(data); addStackFrameToGraph(data) })
OnNewStackFrame(data) ==
    /\ lastMessage' = data
    /\ addStackFrameToGraph(data)
    /\ UNCHANGED elements

\* The socket delivers a message.
NewStackFrame ==
    /\ steps < MaxSteps
    /\ \E data \in Payloads(MaxFrames - frames) : OnNewStackFrame(data)
    /\ steps' = steps + 1

\* The Add Test Nodes button.
AddTestNodes ==
    /\ steps < MaxSteps
    /\ addStackFrameToGraph(testData)
    /\ steps' = steps + 1
    /\ UNCHANGED <<elements, lastMessage>>

\* onClick of the Clear Graph button: setElements([]).
OnClearGraph ==
    /\ updateQueue' = Append(updateQueue, ResetUpdate)
    /\ log' = <<>>
    /\ UNCHANGED <<elements, lastMessage, threw, frames>>

\* The Clear Graph button.
ClearGraph ==
    /\ steps < MaxSteps
    /\ OnClearGraph
    /\ steps' = steps + 1

\* React re-renders the component: the queued updates are applied in order
\* and their result becomes `elements`.
Render ==
    /\ updateQueue # <<>>
    /\ elements' = ProcessQueue(elements, updateQueue, 1)
    /\ updateQueue' = <<>>
    /\ UNCHANGED <<lastMessage, threw, log, steps, frames>>

\* ------------------------------------ the older component (unnamed/part_001)

\* `${frame.file}-${frame.lineNumber}-${frame.structureName}-${frame.methodName}`
\*     .replace(/[^a-zA-Z0-9]/g, '_')
legacyNodeId(frame) ==
    ReplaceNonAlnum(TextOf(frame, "file") \o <<"-">> \o TextOf(frame, "lineNumber")
                    \o <<"-">> \o TextOf(frame, "structureName")
                    \o <<"-">> \o TextOf(frame, "methodName"))

\* `${frame.file}:${frame.lineNumber}\n${frame.structureName}\n${frame.methodName}`
legacyLabel(frame) ==
    TextOf(frame, "file") \o <<":">> \o TextOf(frame, "lineNumber") \o <<"\n">>
        \o TextOf(frame, "structureName") \o <<"\n">> \o TextOf(frame, "methodName")

legacyNode(frame) ==
    [data |-> [id |-> legacyNodeId(frame), label |-> legacyLabel(frame),
               file |-> frame.file, lineNumber |-> frame.lineNumber,
               structureName |-> frame.structureName,
               methodName |-> frame.methodName, count |-> 1]]

legacyEdge(nodeId, nextNodeId) ==
    [data |-> [id |-> EdgeId(nodeId, nextNodeId), source |-> nodeId,
               target |-> nextNodeId, count |-> 1]]

\* elements.map(ele => ele.data.id === id ? {...ele, data: {...ele.data,
\* count: ele.data.count + 1}} : ele)
legacyIncrement(els, id) ==
    [i \in 1..Len(els) |->
        IF els[i].data.id = id
        THEN [els[i] EXCEPT !.data.count = els[i].data.count + 1]
        ELSE els[i]]

\* sequence.forEach of the older addStackFrameToGraph, from frame `index` on,
\* reading the `elements` of the render the callback was made in: the
\* setElements(updatedElements) calls made, and the new nodes and edges.
RECURSIVE legacyForEach(_, _, _, _)
legacyForEach(sequence, index, closure, acc) ==
    IF index > Len(sequence) THEN acc
    ELSE LET frame == sequence[index]
             nodeId == legacyNodeId(frame)
             afterNode ==
                 IF IndicesOf(closure, nodeId) = {}
                 THEN [acc EXCEPT !.newNodes = Append(@, legacyNode(frame))]
                 ELSE [acc EXCEPT !.calls =
                          Append(@, [fn |-> FALSE,
                                     value |-> legacyIncrement(closure, nodeId)])]
             afterEdge ==
                 IF index < Len(sequence)
                 THEN LET nextNodeId == legacyNodeId(sequence[index + 1])
                          edgeId == EdgeId(nodeId, nextNodeId)
                      IN  IF IndicesOf(closure, edgeId) = {}
                          THEN [afterNode EXCEPT !.newEdges =
                                   Append(@, legacyEdge(nodeId, nextNodeId))]
                          ELSE [afterNode EXCEPT !.calls =
                                   Append(@, [fn |-> FALSE,
                                              value |-> legacyIncrement(closure, edgeId)])]
                 ELSE afterNode
         IN  legacyForEach(sequence, index + 1, closure, afterEdge)

\* The setElements calls of one older addStackFrameToGraph(stackFrameData):
\* those of the loop, then setElements(prev => [...prev, ...newNodes, ...newEdges]).
legacyCalls(sequence, closure) ==
    LET done == legacyForEach(sequence, 1, closure,
                              [calls |-> <<>>, newNodes |-> <<>>, newEdges |-> <<>>])
    IN  Append(done.calls, [fn |-> TRUE, newElements |-> done.newNodes \o done.newEdges])

\* One queued update of the older component applied to the state it is handed.
legacyApply(state, update) ==
    IF ~update.fn THEN update.value
    ELSE state \o update.newElements

RECURSIVE legacyProcessQueue(_, _, _)
legacyProcessQueue(state, queue, k) ==
    IF k > Len(queue) THEN state
    ELSE legacyProcessQueue(legacyApply(state, queue[k]), queue, k + 1)

\* The sequences sent to the older component: one or two frames of two methods.
LegacyFrames == {FrameA1, FrameB}
LegacySequences == SeqsOfLen(LegacyFrames, 1) \cup SeqsOfLen(LegacyFrames, 2)

\* socket.on('newStackFrame', data => addStackFrameToGraph(data)) of the
\* older component.
LegacyMessage ==
    /\ steps < MaxSteps + 1
    /\ \E sequence \in LegacySequences :
          /\ updateQueue' = updateQueue \o legacyCalls(sequence, elements)
          /\ log' = Append(log, sequence)
          /\ frames' = frames + Len(sequence)
    /\ steps' = steps + 1
    /\ UNCHANGED <<elements, lastMessage, threw>>

\* The older component re-renders.
LegacyRender ==
    /\ updateQueue # <<>>
    /\ elements' = legacyProcessQueue(elements, updateQueue, 1)
    /\ updateQueue' = <<>>
    /\ UNCHANGED <<lastMessage, threw, log, steps, frames>>

\* ------------------------------------------------- frame identity on its own

VARIABLES
    frame1,    \* a frame
    frame2,    \* a second frame, compared with the first
    nodeId1,   \* generateNodeId of frame1
    nodeId2,   \* generateNodeId of frame2
    compared   \* whether the two ids have been computed

identity == <<frame1, frame2, nodeId1, nodeId2, compared>>

\* ---------------------------------------------------------------- gateway

VARIABLES
    connectedClients,  \* new Set(): the ids of the connected sockets
    inbox,             \* newStackFrame events sent to the viewer's socket, not yet handled
    requests,          \* history: the bodies posted to /api/stackframes
    responses,         \* history: the status answered to each request
    emitted            \* history: the payloads handed to io.emit

gateway == <<connectedClients, inbox, requests, responses, emitted>>

\* A second viewer of the same gateway, in another browser.
VARIABLES
    peerInbox,     \* newStackFrame events sent to the second viewer's socket
    peerElements,  \* the second viewer's useState([])
    peerQueue      \* the second viewer's setElements calls since its last render

peer == <<peerInbox, peerElements, peerQueue>>

\* The stylesheet applied to two counts, and the text of the last export.
VARIABLES
    countLow,     \* data(count) of one element
    countHigh,    \* data(count) of a second element, not smaller
    nodeMatch,    \* for each of the two counts, the node heat selectors that match
    edgeMatch,    \* for each of the two counts, the edge heat selectors that match
    styled,       \* whether the stylesheet has been applied
    mermaidCode,  \* the text handed to downloadText by the last export
    downloads,    \* history: the texts handed to downloadText, in order
    cyKeepsFirst  \* which of two entries with one id Cytoscape shows

heat == <<countLow, countHigh, nodeMatch, edgeMatch, styled>>
export == <<mermaidCode, downloads, cyKeepsFirst>>

vars == <<viewer, identity, gateway, peer, heat, export>>

\* res.status(400) and res.status(200)
BadRequest == 400
Ok == 200

\* The ids of the two viewers' sockets.
ViewerSocket == "viewer"
PeerSocket == "peer"

PeerInit ==
    /\ peerInbox = <<>>
    /\ peerElements = <<>>
    /\ peerQueue = <<>>

GatewayInit ==
    /\ connectedClients = {}
    /\ inbox = <<>>
    /\ requests = <<>>
    /\ responses = <<>>
    /\ emitted = <<>>

\* !stackFrameData || !stackFrameData.sequence || !Array.isArray(stackFrameData.sequence)
InvalidBody(stackFrameData) ==
    \/ "sequence" \notin DOMAIN stackFrameData
    \/ ~stackFrameData.sequence.array

\* io.on('connection'): the socket id joins connectedClients.
Connection ==
    /\ ViewerSocket \notin connectedClients
    /\ connectedClients' = connectedClients \cup {ViewerSocket}
    /\ UNCHANGED <<inbox, requests, responses, emitted, viewer>>

\* socket.on('disconnect'): the socket id leaves connectedClients.
Disconnect ==
    /\ ViewerSocket \in connectedClients
    /\ connectedClients' = connectedClients \ {ViewerSocket}
    /\ UNCHANGED <<inbox, requests, responses, emitted, viewer>>

\* The bodies producers post: frame lists of zero, one (with a trace id) and
\* two frames, lists
\* with a null element or a frame without a method name, a `sequence` that
\* is not an array and a body without `sequence`.
Bodies ==
    {ArrayPayload(<<>>), TracedPayload(<<FrameA1>>, <<"t", "1">>),
     ArrayPayload(<<FrameA2, FrameB>>),
     ArrayPayload(<<FrameNoMethod>>), ArrayPayload(<<Null>>),
     ArrayPayload(<<FrameB, Null>>), NonArrayPayload, NoSequencePayload}

\* The handler of app.post('/api/stackframes') on one body: an invalid body
\* is answered 400; any other body is emitted to every connected socket and
\* then answered 200.
OnPost(stackFrameData) ==
    /\ requests' = Append(requests, stackFrameData)
    /\ IF InvalidBody(stackFrameData)
       THEN /\ responses' = Append(responses, BadRequest)
            /\ UNCHANGED <<inbox, peerInbox, emitted>>
       ELSE /\ emitted' = Append(emitted, stackFrameData)
            /\ inbox' = IF ViewerSocket \in connectedClients
                        THEN Append(inbox, stackFrameData)
                        ELSE inbox
            /\ peerInbox' = IF PeerSocket \in connectedClients
                            THEN Append(peerInbox, stackFrameData)
                            ELSE peerInbox
            /\ responses' = Append(responses, Ok)
    /\ UNCHANGED <<connectedClients, viewer, peerElements, peerQueue>>

\* A producer posts one of the bodies.
PostStackFrames ==
    /\ Len(requests) < MaxPosts
    /\ \E stackFrameData \in Bodies : OnPost(stackFrameData)

\* The bodies of a session watched by two viewers.
SharedBodies == {ArrayPayload(<<FrameA1>>), ArrayPayload(<<FrameB>>)}

SharedPost ==
    /\ Len(requests) < MaxPosts
    /\ \E stackFrameData \in SharedBodies : OnPost(stackFrameData)

\* io.on('connection') for the second viewer's socket.
PeerConnection ==
    /\ PeerSocket \notin connectedClients
    /\ connectedClients' = connectedClients \cup {PeerSocket}
    /\ UNCHANGED <<inbox, requests, responses, emitted, viewer, peer>>

\* The second viewer's newStackFrame handler: the same addStackFrameToGraph,
\* on its own state.
PeerReceive ==
    /\ peerInbox # <<>>
    /\ peerInbox' = Tail(peerInbox)
    /\ LET stackFrameData == Head(peerInbox)
       IN  IF InvalidData(stackFrameData) \/ Throws(stackFrameData.sequence.items)
           THEN UNCHANGED peerQueue
           ELSE peerQueue' = Append(peerQueue,
                    FunctionalUpdate(peerElements,
                                     NewElements(stackFrameData.sequence.items)))
    /\ UNCHANGED <<peerElements, viewer, gateway>>

\* The second viewer re-renders.
PeerRender ==
    /\ peerQueue # <<>>
    /\ peerElements' = ProcessQueue(peerElements, peerQueue, 1)
    /\ peerQueue' = <<>>
    /\ UNCHANGED <<peerInbox, viewer, gateway>>

\* The viewer's socket hands the next event to the newStackFrame handler.
Receive ==
    /\ inbox # <<>>
    /\ OnNewStackFrame(Head(inbox))
    /\ inbox' = Tail(inbox)
    /\ steps' = steps + 1
    /\ UNCHANGED <<connectedClients, requests, responses, emitted>>

\* The handler called with data that has no frame array, whoever sent it.
StrayMessage ==
    /\ steps < MaxSteps
    /\ \E data \in {NonArrayPayload, NoSequencePayload} : OnNewStackFrame(data)
    /\ steps' = steps + 1
    /\ UNCHANGED gateway

\* The characters names are drawn from: a letter, a digit and the punctuation
\* found in paths and qualified names.
Alphabet == {"a", "1", ".", "-", "_", "/"}

\* Names of at most MaxNameLen characters.  A file and a method have a name;
\* a structure name may be empty.
Names == SeqsUpTo(Alphabet, MaxNameLen)
NonEmptyNames == Names \ {<<>>}

LineNumbers == {1, 2}

FrameSpace ==
    {Frame(file, line, structure, method) :
        file \in NonEmptyNames, line \in LineNumbers,
        structure \in Names, method \in NonEmptyNames}

NoId == <<>>

IdentityIdle ==
    /\ frame1 = FrameA1
    /\ frame2 = FrameA1
    /\ nodeId1 = NoId
    /\ nodeId2 = NoId
    /\ compared = FALSE

IdentityInit ==
    /\ frame1 \in FrameSpace
    /\ frame2 = frame1
    /\ nodeId1 = NoId
    /\ nodeId2 = NoId
    /\ compared = FALSE

\* The ids of frame1 and of `other`, as two calls of generateNodeId give them.
Compare(other) ==
    /\ ~compared
    /\ frame2' = other
    /\ nodeId1' = generateNodeId(frame1)
    /\ nodeId2' = generateNodeId(other)
    /\ compared' = TRUE
    /\ UNCHANGED <<frame1, viewer, gateway, peer, heat, export>>

\* The same method seen at some line number.
SameMethod ==
    \E line \in LineNumbers : Compare([frame1 EXCEPT !.lineNumber = line])

\* Any frame of the space.
AnyFrame ==
    \E other \in FrameSpace : Compare(other)

\* -------------------------------------------------------------- heat tiers

\* The five heat selectors of the stylesheet for nodes, in stylesheet order,
\* each evaluated on data(count).
NodeHeatSelectorsOverlap(count) ==
    <<count <= 3,
      count >= 3 /\ count <= 7,
      count > 7 /\ count <= 15,
      count > 15 /\ count <= 30,
      count > 30>>

NodeHeatSelectors(count) ==
    <<count <= 3,
      count > 3 /\ count <= 7,
      count > 7 /\ count <= 15,
      count > 15 /\ count <= 30,
      count > 30>>

\* The five heat selectors of the stylesheet for edges.
EdgeHeatSelectors(count) ==
    <<count <= 3,
      count > 3 /\ count <= 7,
      count > 7 /\ count <= 15,
      count > 15 /\ count <= 30,
      count > 30>>

\* The selectors of a list that match.
Matching(selectors) == {tier \in 1..Len(selectors) : selectors[tier]}

HeatIdle ==
    /\ countLow = 1
    /\ countHigh = 1
    /\ nodeMatch = <<{}, {}>>
    /\ edgeMatch = <<{}, {}>>
    /\ styled = FALSE

HeatInit ==
    /\ countLow \in 1..MaxCount
    /\ countHigh \in countLow..MaxCount
    /\ nodeMatch = <<{}, {}>>
    /\ edgeMatch = <<{}, {}>>
    /\ styled = FALSE

\* Cytoscape evaluates the selectors on the two counts.
ApplyStylesheet ==
    /\ ~styled
    /\ nodeMatch' = <<Matching(NodeHeatSelectors(countLow)),
                      Matching(NodeHeatSelectors(countHigh))>>
    /\ edgeMatch' = <<Matching(EdgeHeatSelectors(countLow)),
                      Matching(EdgeHeatSelectors(countHigh))>>
    /\ styled' = TRUE
    /\ UNCHANGED <<countLow, countHigh, viewer, identity, gateway, peer, export>>

\* ------------------------------------------------------------------ export

\* Cytoscape holds one element per id.  Which of two list entries with one
\* id it shows is the library's choice: the first or the last.
CyElements(els, keepFirst) ==
    LET held == {Min(IndicesOf(els, els[i].data.id)) : i \in 1..Len(els)}
        Shown(i) == IF keepFirst THEN els[i]
                    ELSE els[Max(IndicesOf(els, els[i].data.id))]
        RECURSIVE Pick(_, _)
        Pick(i, edges) ==
            IF i > Len(els) THEN <<>>
            ELSE (IF i \in held /\ ("source" \in DOMAIN els[i].data) = edges
                  THEN <<Shown(i)>> ELSE <<>>) \o Pick(i + 1, edges)
    IN  [nodes |-> Pick(1, FALSE), edges |-> Pick(1, TRUE)]

\* str.replace(/[^a-zA-Z0-9]/g, '0')
ReplaceNonAlnumWith0(str) ==
    [i \in 1..Len(str) |-> IF str[i] \in Alnum THEN str[i] ELSE "0"]

\* A label left as it is.
KeepNewlines(str) == str

\* str.replace(/\n/g, '<br>')
RECURSIVE ReplaceNewlines(_)
ReplaceNewlines(str) ==
    IF str = <<>> THEN <<>>
    ELSE (IF Head(str) = "\n" THEN <<"<", "b", "r", ">">> ELSE <<Head(str)>>)
            \o ReplaceNewlines(Tail(str))

FlowchartHeader == <<"f","l","o","w","c","h","a","r","t"," ","T","D","\n">>
Indent == <<" ", " ", " ", " ">>

\* `    ${cleanId}["${nodeLabel}"];\n`
NodeDeclaration(node) ==
    LET cleanId == ReplaceNonAlnumWith0(node.data.id)
        nodeLabel == IF "label" \in DOMAIN node.data /\ node.data.label # <<>>
                     THEN node.data.label ELSE node.data.id
    IN  Indent \o cleanId \o <<"[", "\"">> \o ReplaceNewlines(nodeLabel)
               \o <<"\"", "]", ";", "\n">>

\* `    ${sourceId} -->` + edgeLabel + ` ${targetId};\n`
EdgeConnection(edge) ==
    LET sourceId == ReplaceNonAlnumWith0(edge.data.source)
        targetId == ReplaceNonAlnumWith0(edge.data.target)
        edgeLabel == IF "count" \in DOMAIN edge.data /\ edge.data.count # 0
                     THEN <<" ", "|">> \o DecimalText(edge.data.count) \o <<"|">>
                     ELSE <<>>
    IN  Indent \o sourceId \o <<" ", "-", "-", ">">> \o edgeLabel
               \o <<" ">> \o targetId \o <<";", "\n">>

\* cytoscapeJson.nodes.forEach and cytoscapeJson.edges.forEach, from the
\* k-th element on.
RECURSIVE NodeDeclarations(_, _)
NodeDeclarations(nodes, k) ==
    IF k > Len(nodes) THEN <<>>
    ELSE NodeDeclaration(nodes[k]) \o NodeDeclarations(nodes, k + 1)

RECURSIVE EdgeConnections(_, _)
EdgeConnections(edges, k) ==
    IF k > Len(edges) THEN <<>>
    ELSE EdgeConnection(edges[k]) \o EdgeConnections(edges, k + 1)

\* exportToMermaid(cy), on cytoscapeJson = cy.json().elements
exportToMermaid(cytoscapeJson) ==
    FlowchartHeader \o NodeDeclarations(cytoscapeJson.nodes, 1)
        \o <<"\n">> \o EdgeConnections(cytoscapeJson.edges, 1)

\* An export that also empties the list it has written out.
ExportAndClear ==
    /\ elements # <<>>
    /\ Len(downloads) < MaxExports
    /\ mermaidCode' = exportToMermaid(CyElements(elements, cyKeepsFirst))
    /\ downloads' = Append(downloads, mermaidCode')
    /\ elements' = <<>>
    /\ UNCHANGED <<cyKeepsFirst, updateQueue, lastMessage, threw, log, steps,
                   frames, identity, gateway, peer, heat>>

\* onClick of Export as Mermaid: with a Cytoscape instance mounted, the text
\* of its graph is handed to downloadText.
ExportAsMermaid ==
    /\ elements # <<>>
    /\ Len(downloads) < MaxExports
    /\ mermaidCode' = exportToMermaid(CyElements(elements, cyKeepsFirst))
    /\ downloads' = Append(downloads, mermaidCode')
    /\ UNCHANGED <<cyKeepsFirst, viewer, identity, gateway, peer, heat>>

\* The graphs on screen after at most MaxSteps sequences of one or two frames
\* have been merged and rendered.
ExportFrames == {FrameA1, FrameA2, FrameB}
ExportSequences == SeqsOfLen(ExportFrames, 1) \cup SeqsOfLen(ExportFrames, 2)
ExportLogs == UNION {SeqsOfLen(ExportSequences, n) : n \in 1..MaxSteps}

RECURSIVE Rendered(_, _)
Rendered(sequences, n) ==
    IF n = 0 THEN <<>>
    ELSE MergeElements(Rendered(sequences, n - 1), NewElements(sequences[n]))

\* The viewer after these sequences have been delivered and rendered.
GraphAfter(sequences) ==
    /\ elements = Rendered(sequences, Len(sequences))
    /\ updateQueue = <<>>
    /\ lastMessage = ArrayPayload(sequences[Len(sequences)])
    /\ threw = FALSE
    /\ log = sequences
    /\ steps = Len(sequences)
    /\ frames = Len(Flatten(sequences))

GraphInit == \E sequences \in ExportLogs : GraphAfter(sequences)

\* Frames whose names hold what a flowchart text gives a meaning to: a double
\* quote, a line end, and a digit 0 where another file name has a dot.
FrameQuote == Frame(<<"q", "\"">>, 1, <<"S">>, <<"m">>)
FrameNewline == Frame(<<"n", "\n">>, 1, <<"S">>, <<"m">>)
FrameZero == Frame(<<"a", "0", "b">>, 1, <<"S">>, <<"m">>)
NamedFrames == {FrameA1, FrameQuote, FrameNewline, FrameZero}
NamedLogs ==
    {<<sequence>> : sequence \in UNION {SeqsOfLen(NamedFrames, n) : n \in 1..3}}

NamedGraphInit == \E sequences \in NamedLogs : GraphAfter(sequences)

\* ------------------------------------------------------- specifications

\* No export has been made.
NoExport == <<>>
ExportIdle ==
    /\ mermaidCode = NoExport
    /\ downloads = <<>>
    /\ cyKeepsFirst = TRUE

\* Before the first export, with either behaviour of the library.
ExportInit ==
    /\ mermaidCode = NoExport
    /\ downloads = <<>>
    /\ cyKeepsFirst \in BOOLEAN

Init == ViewerInit /\ IdentityIdle /\ GatewayInit /\ PeerInit /\ HeatIdle /\ ExportIdle

Next ==
    \/ NewStackFrame /\ UNCHANGED <<identity, gateway, peer, heat, export>>
    \/ AddTestNodes /\ UNCHANGED <<identity, gateway, peer, heat, export>>
    \/ ClearGraph /\ UNCHANGED <<identity, gateway, peer, heat, export>>
    \/ Render /\ UNCHANGED <<identity, gateway, peer, heat, export>>

\* The viewer: messages, buttons and renders in any order.
Spec == Init /\ [][Next]_vars

InitIdentity == ViewerInit /\ IdentityInit /\ GatewayInit /\ PeerInit /\ HeatIdle /\ ExportIdle

\* One method at two line numbers.
SpecStability == InitIdentity /\ [][SameMethod]_vars

\* Two arbitrary frames.
SpecCollision == InitIdentity /\ [][AnyFrame]_vars

\* A longer session over fewer frames: one step more than in Spec, with
\* sequences of one or two frames of two methods.
SessionSteps == MaxSteps + 1
SessionFrames == {FrameA1, FrameA2, FrameB}
SessionPayloads(room) ==
    {ArrayPayload(s) : s \in UNION {SeqsOfLen(SessionFrames, n) :
                                      n \in 1..(IF room < 2 THEN room ELSE 2)}}

SessionMessage ==
    /\ steps < SessionSteps
    /\ \E data \in SessionPayloads(MaxFrames - frames) : OnNewStackFrame(data)
    /\ steps' = steps + 1

SessionClear ==
    /\ steps < SessionSteps
    /\ OnClearGraph
    /\ steps' = steps + 1

SessionNext ==
    \/ SessionMessage /\ UNCHANGED <<identity, gateway, peer, heat, export>>
    \/ SessionClear /\ UNCHANGED <<identity, gateway, peer, heat, export>>
    \/ Render /\ UNCHANGED <<identity, gateway, peer, heat, export>>

SpecSession == Init /\ [][SessionNext]_vars

GatewayNext ==
    \/ Connection /\ UNCHANGED <<identity, peer, heat, export>>
    \/ Disconnect /\ UNCHANGED <<identity, peer, heat, export>>
    \/ PostStackFrames /\ UNCHANGED <<identity, heat, export>>
    \/ Receive /\ UNCHANGED <<identity, peer, heat, export>>
    \/ StrayMessage /\ UNCHANGED <<identity, peer, heat, export>>
    \/ Render /\ UNCHANGED <<identity, gateway, peer, heat, export>>

\* Two viewers of one gateway; the first one's buttons are in use.
ViewersNext ==
    \/ Connection /\ UNCHANGED <<identity, peer, heat, export>>
    \/ PeerConnection /\ UNCHANGED <<identity, heat, export>>
    \/ SharedPost /\ UNCHANGED <<identity, heat, export>>
    \/ Receive /\ UNCHANGED <<identity, peer, heat, export>>
    \/ PeerReceive /\ UNCHANGED <<identity, heat, export>>
    \/ Render /\ UNCHANGED <<identity, gateway, peer, heat, export>>
    \/ PeerRender /\ UNCHANGED <<identity, heat, export>>
    \/ ClearGraph /\ UNCHANGED <<identity, gateway, peer, heat, export>>
    \/ AddTestNodes /\ UNCHANGED <<identity, gateway, peer, heat, export>>

SpecViewers == Init /\ [][ViewersNext]_vars

LegacyNext ==
    \/ LegacyMessage /\ UNCHANGED <<identity, gateway, peer, heat, export>>
    \/ LegacyRender /\ UNCHANGED <<identity, gateway, peer, heat, export>>

\* The older component on its own.
SpecLegacy == Init /\ [][LegacyNext]_vars

\* The gateway with one viewer connected to it.
SpecGateway == Init /\ [][GatewayNext]_vars

InitHeat == ViewerInit /\ IdentityIdle /\ GatewayInit /\ PeerInit /\ HeatInit /\ ExportIdle

\* The stylesheet on any two counts.
SpecHeat == InitHeat /\ [][ApplyStylesheet]_vars

InitExport == GraphInit /\ IdentityIdle /\ GatewayInit /\ PeerInit /\ HeatIdle /\ ExportInit

\* The export of a graph on screen.
SpecExport == InitExport /\ [][ExportAsMermaid]_vars

InitNamed == NamedGraphInit /\ IdentityIdle /\ GatewayInit /\ PeerInit /\ HeatIdle /\ ExportInit

\* The export of a graph whose names hold quotes, line ends and digits.
SpecExportNamed == InitNamed /\ [][ExportAsMermaid]_vars

\* ------------------------------------------------------ reading the graph

\* Cytoscape takes an element with a source and a target for an edge.
IsEdge(el) == "source" \in DOMAIN el.data
NodeIndices(els) == {i \in 1..Len(els) : ~IsEdge(els[i])}
EdgeIndices(els) == {i \in 1..Len(els) : IsEdge(els[i])}

\* The (id, count) pairs the list shows.
GraphOf(els) == {<<els[i].data.id, els[i].data.count>> : i \in 1..Len(els)}

\* Occurrences of frames in the log, and of consecutive frame pairs.
FrameOccurrences ==
    {o \in (1..Len(log)) \X (1..MaxFrames) : o[2] <= Len(log[o[1]])}
PairOccurrences == {o \in FrameOccurrences : o[2] < Len(log[o[1]])}

FrameCount(id) ==
    Cardinality({o \in FrameOccurrences : generateNodeId(log[o[1]][o[2]]) = id})

PairKey(o) == <<generateNodeId(log[o[1]][o[2]]), generateNodeId(log[o[1]][o[2] + 1])>>

PairCount(source, target) ==
    Cardinality({o \in PairOccurrences : PairKey(o) = <<source, target>>})

\* The log folded one sequence at a time, each merge applied to the rendered
\* result of the one before it.
RECURSIVE OneAtATimeFrom(_, _)
OneAtATimeFrom(state, k) ==
    IF k > Len(log) THEN state
    ELSE OneAtATimeFrom(MergeElements(state, NewElements(log[k])), k + 1)

OneAtATime == OneAtATimeFrom(<<>>, 1)

\* Every update made so far has been rendered.
Quiescent == updateQueue = <<>>

\* ------------------------------------------------------------------ claims

\* C1: after folding any list of sequences into the empty graph, every node's
\* count is the number of frames of those sequences that have the node's id.
C1_NodeCountIsFrameCount ==
    Quiescent =>
        \A i \in NodeIndices(elements) :
            elements[i].data.count = FrameCount(elements[i].data.id)

\* C2: no two elements of `elements` share an id.
C2_UniqueIds ==
    \A i, j \in 1..Len(elements) :
        elements[i].data.id = elements[j].data.id => i = j

\* C3: after folding any list of sequences into the empty graph, the edges are
\* exactly the keys of the consecutive frame pairs folded, and every edge's
\* count is the number of those pairs.
C3_EdgeCountIsPairCount ==
    Quiescent =>
        /\ {<<elements[i].data.source, elements[i].data.target>> :
                i \in EdgeIndices(elements)}
             = {PairKey(o) : o \in PairOccurrences}
        /\ \A i \in EdgeIndices(elements) :
              elements[i].data.count =
                  PairCount(elements[i].data.source, elements[i].data.target)

\* C4: rendering the updates queued so far, however many were delivered
\* back-to-back, gives the state obtained by merging the same sequences one
\* at a time with a render between each; no increment is lost.
C4_BatchEqualsOneAtATime ==
    ProcessQueue(elements, updateQueue, 1) = OneAtATime

\* C4 witness: two sequences that hold the same method have been delivered
\* with no render between them, and rendering them counts the method twice.
C4_Witness ==
    /\ elements = <<>>
    /\ Len(updateQueue) = 2
    /\ \A k \in 1..2 :
          /\ updateQueue[k].fn
          /\ Len(updateQueue[k].newElements) = 1
          /\ updateQueue[k].newElements[1].data.id = generateNodeId(FrameA1)
    /\ ProcessQueue(elements, updateQueue, 1)[1].data.count = 2

\* C5: two frames with the same (file, structureName, methodName) get the same
\* node id, whatever their line numbers.
C5_SameMethodSameId ==
    (compared /\ Triple(frame1) = Triple(frame2)) => nodeId1 = nodeId2

\* C5 witness: one method with punctuation in its names, compared at two
\* different line numbers.
C5_Witness ==
    /\ compared
    /\ Triple(frame1) = Triple(frame2)
    /\ frame1.lineNumber # frame2.lineNumber
    /\ frame1.file = <<".">>
    /\ nodeId1 = <<"_", "_", "a", "_", "1">>

\* C6: frames with different (file, structureName, methodName) get different
\* node ids.
C6_DistinctMethodsDistinctIds ==
    (compared /\ Triple(frame1) # Triple(frame2)) => nodeId1 # nodeId2

\* C7: a render that applies merges only keeps every element in its place and
\* lowers no count; only Clear Graph removes elements.
C7_MergeKeepsElements ==
    [][(\A k \in 1..Len(updateQueue) : updateQueue[k].fn) =>
          /\ Len(elements') >= Len(elements)
          /\ \A i \in 1..Len(elements) :
                /\ elements'[i].data.id = elements[i].data.id
                /\ elements'[i].data.count >= elements[i].data.count]_vars

\* C7 witness: merges have been rendered over a non-empty graph, one count
\* has grown and a new element has been added after the first render.
C7_Witness ==
    /\ Quiescent
    /\ Len(log) = 2
    /\ steps = 2
    /\ Len(log[1]) = 1
    /\ Len(log[2]) = 2
    /\ Len(elements) = 3
    /\ elements[1].data.count = 2

\* C8: merging S1 then S2 gives the same nodes and edges, with the same
\* counts, as merging S2 then S1.
C8_MergeCommutes ==
    (Len(updateQueue) = 2 /\ updateQueue[1].fn /\ updateQueue[2].fn) =>
        GraphOf(ProcessQueue(elements, updateQueue, 1))
            = GraphOf(ProcessQueue(elements, <<updateQueue[2], updateQueue[1]>>, 1))

\* The log holds n >= 1 copies of one sequence of pairwise-distinct methods.
ReplayOfDistinctMethods ==
    /\ Len(log) >= 1
    /\ Len(log[1]) >= 1
    /\ \A s \in 1..Len(log) : log[s] = log[1]
    /\ \A i, j \in 1..Len(log[1]) :
          Triple(log[1][i]) = Triple(log[1][j]) => i = j

\* C9: merging a sequence of k pairwise-distinct methods n times into the
\* empty graph gives k nodes and k-1 edges, all with count n.
C9_ReplayCounts ==
    (Quiescent /\ ReplayOfDistinctMethods) =>
        /\ Cardinality(NodeIndices(elements)) = Len(log[1])
        /\ Cardinality(EdgeIndices(elements)) = Len(log[1]) - 1
        /\ \A i \in 1..Len(elements) : elements[i].data.count = Len(log)

\* C10: merging [X, X] into the empty graph gives one node X with count 2 and
\* one self-edge X -> X with count 1.
C10_SelfLoop ==
    (/\ Quiescent
     /\ Len(log) = 1
     /\ Len(log[1]) = 2
     /\ Triple(log[1][1]) = Triple(log[1][2])) =>
        LET X == generateNodeId(log[1][1])
        IN  /\ \E i \in 1..Len(elements) :
                  /\ NodeIndices(elements) = {i}
                  /\ elements[i].data.id = X
                  /\ elements[i].data.count = 2
            /\ \E j \in 1..Len(elements) :
                  /\ EdgeIndices(elements) = {j}
                  /\ elements[j].data.source = X
                  /\ elements[j].data.target = X
                  /\ elements[j].data.count = 1

\* The log holds sequences [A, B] and [B, A] only, of two distinct methods.
BothDirections ==
    /\ Len(log) >= 1
    /\ \A s \in 1..Len(log) :
          /\ Len(log[s]) = 2
          /\ Triple(log[s][1]) # Triple(log[s][2])
          /\ {Triple(log[s][1]), Triple(log[s][2])}
               = {Triple(log[1][1]), Triple(log[1][2])}

\* The sequences of the log that run from the method of `from`.
RunsFrom(from) == {s \in 1..Len(log) : Triple(log[s][1]) = Triple(from)}

\* C11: for distinct methods A and B, the sequences [A, B] count on the edge
\* A -> B only and the sequences [B, A] on the edge B -> A only: the two are
\* different edges, each with the number of its own occurrences.
C11_EdgeDirection ==
    (Quiescent /\ BothDirections) =>
        LET A == log[1][1]
            B == log[1][2]
            AB == Cardinality(RunsFrom(A))
            BA == Cardinality(RunsFrom(B))
        IN  /\ \A i \in EdgeIndices(elements) :
                  \/ /\ elements[i].data.source = generateNodeId(A)
                     /\ elements[i].data.target = generateNodeId(B)
                     /\ elements[i].data.count = AB
                  \/ /\ elements[i].data.source = generateNodeId(B)
                     /\ elements[i].data.target = generateNodeId(A)
                     /\ elements[i].data.count = BA
            /\ Cardinality(EdgeIndices(elements))
                 = (IF AB > 0 THEN 1 ELSE 0) + (IF BA > 0 THEN 1 ELSE 0)

\* The positions of the resets in a queue of updates.
Resets(queue) == {k \in 1..Len(queue) : queue[k] = ResetUpdate}

\* C12: Clear Graph empties the graph whatever was merged before it, and the
\* merges queued after it, in the same batch or later, are folded into the
\* empty graph: one merge after the reset gives counts of 1 only.
C12_ResetStartsFromEmpty ==
    LET rendered == ProcessQueue(elements, updateQueue, 1)
    IN  /\ Resets(updateQueue) # {} =>
              LET last == Max(Resets(updateQueue))
                  after == SubSeq(updateQueue, last + 1, Len(updateQueue))
              IN  /\ rendered = ProcessQueue(<<>>, after, 1)
                  /\ after = <<>> => rendered = <<>>
                  /\ Len(after) = 1 =>
                        \A i \in 1..Len(rendered) : rendered[i].data.count = 1
        /\ log = <<>> => rendered = <<>>
        /\ Len(log) = 1 =>
              \A i \in 1..Len(rendered) : rendered[i].data.count = 1

\* C12 witness: a method is on the rendered graph, and Clear Graph followed
\* by a merge of the same method are queued in one batch; rendering them
\* shows the method with count 1.
C12_Witness ==
    /\ Len(elements) = 1
    /\ elements[1].data.id = generateNodeId(FrameA1)
    /\ Len(updateQueue) = 2
    /\ updateQueue[1] = ResetUpdate
    /\ updateQueue[2].fn
    /\ updateQueue[2].newElements[1].data.id = generateNodeId(FrameA1)
    /\ ProcessQueue(elements, updateQueue, 1)[1].data.count = 1

\* A body whose `sequence` is an array.
HasFrameArray(body) == "sequence" \in DOMAIN body /\ body.sequence.array

\* The requests answered so far.
Answered == 1..Len(responses)

\* C13: a submission whose `sequence` is an empty array is answered 400 and
\* not emitted, and no viewer's merge is invoked with zero frames.
C13_EmptySequenceRejected ==
    /\ \A k \in Answered :
          (HasFrameArray(requests[k]) /\ requests[k].sequence.items = <<>>) =>
              responses[k] = BadRequest
    /\ \A e \in 1..Len(emitted) : emitted[e].sequence.items # <<>>
    /\ \A s \in 1..Len(log) : log[s] # <<>>

\* An array element that is a frame carrying a method name.
FrameWithMethod(element) == "methodName" \in DOMAIN element

\* C14: a submission is emitted only if every element of its `sequence` is a
\* frame carrying a method name; one holding a frame without methodName is
\* answered 400 and reaches no viewer.
C14_FramesNeedMethodName ==
    /\ \A k \in Answered :
          (/\ HasFrameArray(requests[k])
           /\ \E i \in 1..Len(requests[k].sequence.items) :
                 ~FrameWithMethod(requests[k].sequence.items[i])) =>
              responses[k] = BadRequest
    /\ \A e \in 1..Len(emitted) :
          \A i \in 1..Len(emitted[e].sequence.items) :
              FrameWithMethod(emitted[e].sequence.items[i])

\* C15: a submission whose `sequence` is missing or is not an array is
\* answered 400 and not emitted, and the newStackFrame handler called with
\* such data queues no update and leaves `elements` as it is.
C15_NoArrayNoChange ==
    [][/\ \A k \in 1..Len(responses') :
             ~HasFrameArray(requests'[k]) => responses'[k] = BadRequest
       /\ \A e \in 1..Len(emitted') : HasFrameArray(emitted'[e])
       /\ (steps' # steps /\ ~HasFrameArray(lastMessage')) =>
             /\ elements' = elements
             /\ updateQueue' = updateQueue
             /\ ProcessQueue(elements', updateQueue', 1)
                  = ProcessQueue(elements, updateQueue, 1)]_vars

\* C15 witness: with the viewer connected and a graph on screen, a body whose
\* `sequence` is not an array was posted and answered 400, and the handler
\* was called with data of that kind; the graph is the one merged before.
C15_Witness ==
    /\ ViewerSocket \in connectedClients
    /\ Len(responses) = 2
    /\ requests[2] = NonArrayPayload
    /\ responses[2] = BadRequest
    /\ Len(emitted) = 1
    /\ lastMessage = NonArrayPayload
    /\ steps = 2
    /\ Quiescent
    /\ Len(elements) = 1
    /\ elements[1].data.count = 1

\* C16: no payload the gateway accepts and emits is one on which
\* addStackFrameToGraph throws, and no handler call of the viewer has ended
\* in an error.
C16_AcceptedNeverThrows ==
    /\ \A e \in 1..Len(emitted) : ~Throws(emitted[e].sequence.items)
    /\ ~threw

\* The frames of the merges waiting in the queue, in arrival order, when the
\* queue holds merges only.
PendingFrames ==
    Flatten(SubSeq(log, Len(log) - Len(updateQueue) + 1, Len(log)))

\* The pending frames that map to the node with this id.
PendingFor(id) ==
    {k \in 1..Len(PendingFrames) : generateNodeId(PendingFrames[k]) = id}

\* C17: a render that merges frames into nodes already on the graph leaves
\* each such node with the line number of the newest frame that maps to it,
\* and with the label built from that line number.
C17_LineNumberOverwritten ==
    [][(/\ updateQueue # <<>>
        /\ updateQueue' = <<>>
        /\ \A k \in 1..Len(updateQueue) : updateQueue[k].fn) =>
          \A i \in NodeIndices(elements) :
              PendingFor(elements[i].data.id) # {} =>
                  LET newest == PendingFrames[Max(PendingFor(elements[i].data.id))]
                  IN  /\ elements'[i].data.lineNumber = newest.lineNumber
                      /\ elements'[i].data.label =
                            generateLabelWithCount(
                                TextOf(newest, "file"), TextOf(newest, "lineNumber"),
                                TextOf(newest, "structureName"),
                                TextOf(newest, "methodName"),
                                elements'[i].data.count)]_vars

\* The first n sequences of the log folded into the empty graph.
RECURSIVE FoldOf(_)
FoldOf(n) ==
    IF n = 0 THEN <<>>
    ELSE MergeElements(FoldOf(n - 1), NewElements(log[n]))

\* The label an element's own fields give.
LabelOf(el) ==
    generateLabelWithCount(TextOf(el.data, "file"), TextOf(el.data, "lineNumber"),
                           TextOf(el.data, "structureName"),
                           TextOf(el.data, "methodName"), el.data.count)

\* C18: the rendered list is always the fold of a whole number of the
\* sequences received (those not waiting in the queue), never of a part of a
\* sequence, and every label on it is the one its element's fields give.
C18_WholeSequencesOnly ==
    /\ Resets(updateQueue) = {} =>
          elements = FoldOf(Len(log) - Len(updateQueue))
    /\ \A i \in 1..Len(elements) :
          "label" \in DOMAIN elements[i].data =>
              elements[i].data.label = LabelOf(elements[i])

\* C18 witness: one sequence of two frames is on the rendered graph with its
\* two nodes and its edge, and a second sequence of two frames that starts
\* with the same method waits in the queue, none of it visible yet.
C18_Witness ==
    /\ Len(log) = 2
    /\ Len(log[1]) = 2
    /\ Len(log[2]) = 2
    /\ Len(updateQueue) = 1
    /\ updateQueue[1].fn
    /\ Len(elements) = 3
    /\ updateQueue[1].newElements[1].data.id = elements[1].data.id
    /\ \A i \in 1..3 : elements[i].data.count = 1

\* The tier the ranges <=3, 4-7, 8-15, 16-30, >30 give a count.
TierOf(count) ==
    IF count <= 3 THEN 1
    ELSE IF count <= 7 THEN 2
    ELSE IF count <= 15 THEN 3
    ELSE IF count <= 30 THEN 4
    ELSE 5

\* C19: for every count >= 1 exactly one node heat selector and exactly one
\* edge heat selector match, both the one of the count's range, and a larger
\* count never gets a lower tier.
C19_HeatTiersPartition ==
    styled =>
        /\ nodeMatch[1] = {TierOf(countLow)}
        /\ nodeMatch[2] = {TierOf(countHigh)}
        /\ edgeMatch = nodeMatch
        /\ \A low \in nodeMatch[1], high \in nodeMatch[2] : low <= high

\* C19 witness: the counts on the two sides of a tier boundary, 7 and 8, get
\* the second and the third tier.
C19_Witness ==
    /\ styled
    /\ countLow = 7
    /\ countHigh = 8
    /\ nodeMatch = <<{2}, {3}>>
    /\ edgeMatch = <<{2}, {3}>>

\* The lines of a text that ends with a line end, without their line ends.
LineEnds(text) == {k \in 1..Len(text) : text[k] = "\n"}
LineEnd(text, n) ==
    CHOOSE k \in LineEnds(text) : Cardinality({m \in LineEnds(text) : m <= k}) = n
Lines(text) ==
    [n \in 1..Cardinality(LineEnds(text)) |->
        SubSeq(text, IF n = 1 THEN 1 ELSE LineEnd(text, n - 1) + 1,
               LineEnd(text, n) - 1)]

\* Reading a line of the flowchart: after the indentation comes an
\* identifier; a declaration goes on with [" and ends with "]; and a
\* connection goes on with --> and the |count| annotation.
IdEnd(line) ==
    Min({k \in 5..(Len(line) + 1) : k > Len(line) \/ line[k] \notin Alnum})
Indented(line) == Len(line) > 4 /\ SubSeq(line, 1, 4) = Indent /\ IdEnd(line) > 5
IdOn(line) == SubSeq(line, 5, IdEnd(line) - 1)
Rest(line) == SubSeq(line, IdEnd(line), Len(line))
StartsWith(text, prefix) ==
    Len(text) >= Len(prefix) /\ SubSeq(text, 1, Len(prefix)) = prefix
IsDeclaration(line) ==
    /\ Indented(line)
    /\ StartsWith(Rest(line), <<"[", "\"">>)
    /\ SubSeq(line, Len(line) - 2, Len(line)) = <<"\"", "]", ";">>
IsConnection(line) == Indented(line) /\ StartsWith(Rest(line), <<" ", "-", "-", ">">>)
\* The text between the bars of a connection's annotation, <<>> without one.
CountOn(line) ==
    LET after == SubSeq(Rest(line), 5, Len(Rest(line)))
    IN  IF StartsWith(after, <<" ", "|">>)
        THEN LET bars == {k \in 3..Len(after) : after[k] = "|"}
             IN  IF bars = {} THEN <<>> ELSE SubSeq(after, 3, Min(bars) - 1)
        ELSE <<>>

\* The export reads its text as the graph `json`.
ExportShows(text, json) ==
    LET lines == Lines(text)
        declarations == {k \in 1..Len(lines) : IsDeclaration(lines[k])}
        connections == {k \in 1..Len(lines) : IsConnection(lines[k])}
        first == 1
        blank == Len(json.nodes) + 2
    IN  /\ text[Len(text)] = "\n"
        /\ Len(lines) = Len(json.nodes) + Len(json.edges) + 2
        /\ declarations = {first + n : n \in 1..Len(json.nodes)}
        /\ connections = {blank + e : e \in 1..Len(json.edges)}
        /\ \A n \in 1..Len(json.nodes) :
              IdOn(lines[first + n]) = ReplaceNonAlnumWith0(json.nodes[n].data.id)
        /\ \A e \in 1..Len(json.edges) :
              /\ IdOn(lines[blank + e]) = ReplaceNonAlnumWith0(json.edges[e].data.source)
              /\ CountOn(lines[blank + e]) = DecimalText(json.edges[e].data.count)
        /\ \A d \in declarations, c \in connections : d < c

\* C20: the exported text has exactly one declaration line for each node of
\* the graph and exactly one connection line for each edge, each connection
\* line carries its edge's count, and every declaration comes before every
\* connection.
C20_ExportLines ==
    mermaidCode # NoExport =>
        ExportShows(mermaidCode, CyElements(elements, cyKeepsFirst))

\* C20 witness: a graph of two nodes and the edge between them, the edge
\* counted twice, has been exported: two declarations, then the connection
\* annotated |2|.
C20_Witness ==
    /\ mermaidCode # NoExport
    /\ Len(elements) = 3
    /\ IsEdge(elements[2])
    /\ elements[2].data.count = 2
    /\ elements[1].data.id # elements[3].data.id
    /\ Len(Lines(mermaidCode)) = 5
    /\ IsDeclaration(Lines(mermaidCode)[2])
    /\ IsDeclaration(Lines(mermaidCode)[3])
    /\ CountOn(Lines(mermaidCode)[5]) = <<"2">>

\* The text between [" and "]; of a declaration line.
LabelOn(line) == SubSeq(Rest(line), 3, Len(Rest(line)) - 3)

\* C21: no label of the exported text holds a double quote or a line end,
\* whatever the file, structure and method names of the frames hold.
C21_LabelsEscaped ==
    mermaidCode # NoExport =>
        \A k \in 1..Len(Lines(mermaidCode)) :
            IsDeclaration(Lines(mermaidCode)[k]) =>
                \A c \in 1..Len(LabelOn(Lines(mermaidCode)[k])) :
                    LabelOn(Lines(mermaidCode)[k])[c] \notin {"\"", "\n"}

DeliveredTwice ==
    /\ Quiescent
    /\ inbox = <<>>
    /\ Len(emitted) = 2
    /\ emitted[1] = emitted[2]
    /\ "traceId" \in DOMAIN emitted[1]
    /\ log = <<emitted[1].sequence.items, emitted[2].sequence.items>>

\* C23: a submission delivered to a viewer a second time leaves the graph as
\* it was after the first delivery; no count is incremented again.
C23_DuplicateDelivery ==
    DeliveredTwice => elements = MergeElements(<<>>, NewElements(log[1]))

\* Both viewers are connected, every event sent to them has been handled and
\* every update rendered.
ViewersQuiescent ==
    /\ {ViewerSocket, PeerSocket} \subseteq connectedClients
    /\ inbox = <<>>
    /\ peerInbox = <<>>
    /\ updateQueue = <<>>
    /\ peerQueue = <<>>

\* C24: at every quiescent point the connected viewers show the same nodes
\* and edges with the same counts, whenever each of them connected and
\* whatever buttons were used on one of them.
C24_ViewersAgree ==
    ViewersQuiescent => GraphOf(elements) = GraphOf(peerElements)

\* The requests answered 200, in the order they were answered.
RECURSIVE AcceptedUpTo(_, _)
AcceptedUpTo(reqs, resps) ==
    IF resps = <<>> THEN <<>>
    ELSE LET k == Len(resps)
             before == AcceptedUpTo(SubSeq(reqs, 1, k - 1), SubSeq(resps, 1, k - 1))
         IN  IF resps[k] = Ok THEN Append(before, reqs[k]) ELSE before

\* C25: the accepted submissions are exactly the emitted ones, once each and
\* in acceptance order; the viewer is handed the events in that order, and
\* handling an event folds its frames exactly once.
C25_EmittedOnceFoldedOnce ==
    [][/\ emitted' = AcceptedUpTo(requests', responses')
       /\ (Len(requests') > Len(requests) /\ ViewerSocket \in connectedClients
             /\ responses'[Len(responses')] = Ok) =>
             inbox' = Append(inbox, requests'[Len(requests')])
       /\ (inbox # <<>> /\ inbox' = Tail(inbox)) =>
             /\ log' = Append(log, Head(inbox).sequence.items)
             /\ updateQueue' = Append(updateQueue,
                    FunctionalUpdate(elements,
                                     NewElements(Head(inbox).sequence.items)))]_vars

\* The ids of the nodes and edges the older component makes of a sequence.
LegacyIds(sequence) ==
    {legacyNodeId(sequence[i]) : i \in 1..Len(sequence)}
        \cup {EdgeId(legacyNodeId(sequence[i]), legacyNodeId(sequence[i + 1])) :
                 i \in 1..(Len(sequence) - 1)}

\* The sequences the older component merged since its last render: every
\* merge ends with one functional call.
LegacyPending ==
    LET n == Cardinality({k \in 1..Len(updateQueue) : updateQueue[k].fn})
    IN  SubSeq(log, Len(log) - n + 1, Len(log))

\* Every pending sequence names each method once, and all its nodes and edges
\* are on the rendered graph.
LegacyAllExist ==
    /\ LegacyPending # <<>>
    /\ \A s \in 1..Len(LegacyPending) :
          /\ \A i, j \in 1..Len(LegacyPending[s]) :
                legacyNodeId(LegacyPending[s][i]) = legacyNodeId(LegacyPending[s][j])
                    => i = j
          /\ \A id \in LegacyIds(LegacyPending[s]) : IndicesOf(elements, id) # {}

\* C26: in the older component, each merge of a sequence whose nodes and
\* edges are all on the graph raises the count of every node and edge of the
\* sequence by one and adds no element, also when several merges arrive
\* between two renders: the next render shows the same elements, each count
\* raised by the number of pending sequences it is part of.
C26_LegacyIncrements ==
    [][(LegacyAllExist /\ updateQueue' = <<>>) =>
          /\ Len(elements') = Len(elements)
          /\ \A i \in 1..Len(elements) :
                /\ elements'[i].data.id = elements[i].data.id
                /\ elements'[i].data.count = elements[i].data.count
                     + Cardinality({s \in 1..Len(LegacyPending) :
                            elements[i].data.id \in LegacyIds(LegacyPending[s])})]_vars

\* The identifiers the exported text declares.
DeclaredIds(text) ==
    {IdOn(Lines(text)[k]) : k \in {l \in 1..Len(Lines(text)) : IsDeclaration(Lines(text)[l])}}

\* C27: the exported text declares a different identifier for every node id
\* of the graph: as many identifiers are declared as the graph has node ids.
C27_DistinctIdentifiers ==
    mermaidCode # NoExport =>
        LET nodes == CyElements(elements, cyKeepsFirst).nodes
        IN  Cardinality(DeclaredIds(mermaidCode))
                = Cardinality({nodes[i].data.id : i \in 1..Len(nodes)})

\* The ids of the nodes of a list.
NodeIds(els) == {els[i].data.id : i \in NodeIndices(els)}

\* Every edge of the list starts and ends at a node of the list.
NoEdgeDangles(els) ==
    \A i \in EdgeIndices(els) :
        /\ els[i].data.source \in NodeIds(els)
        /\ els[i].data.target \in NodeIds(els)

\* C28: under any interleaving of merges and Clear Graph, every edge of the
\* element list has its source and its target among the nodes of the list,
\* in the rendered list and in the list the queued updates will give.
C28_NoEdgeDangles ==
    /\ NoEdgeDangles(elements)
    /\ NoEdgeDangles(ProcessQueue(elements, updateQueue, 1))

\* C28 witness: a graph with an edge is rendered, and Clear Graph followed by
\* the merge of a sequence of two methods is queued.
C28_Witness ==
    /\ EdgeIndices(elements) # {}
    /\ Len(updateQueue) = 2
    /\ updateQueue[1] = ResetUpdate
    /\ EdgeIndices(ProcessQueue(elements, updateQueue, 1)) # {}

\* The sum of the counts of the nodes (or of the edges) of a list.
RECURSIVE CountSum(_, _, _)
CountSum(els, k, edges) ==
    IF k > Len(els) THEN 0
    ELSE (IF IsEdge(els[k]) = edges THEN els[k].data.count ELSE 0)
             + CountSum(els, k + 1, edges)

\* No node of the list has the id of an edge of the list: node ids hold no
\* arrow and edge ids hold one.
NodeAndEdgeIdsApart(els) ==
    /\ \A i \in NodeIndices(els), j \in EdgeIndices(els) :
          els[i].data.id # els[j].data.id
    /\ \A i \in NodeIndices(els) :
          \A c \in 1..Len(els[i].data.id) : els[i].data.id[c] \notin {"-", ">"}
    /\ \A j \in EdgeIndices(els) :
          \E c \in 1..(Len(els[j].data.id) - 1) :
              els[j].data.id[c] = "-" /\ els[j].data.id[c + 1] = ">"

\* C29: nodes and edges are kept in one list keyed by id and no node id is
\* an edge id, so a frame occurrence creates or increments a node only and
\* a consecutive pair of frames an edge only: the node counts never add up
\* to more than the frames merged since the last reset, nor the edge counts
\* to more than the pairs.
C29_NodeAndEdgeIdsApart ==
    LET rendered == ProcessQueue(elements, updateQueue, 1)
    IN  /\ NodeAndEdgeIdsApart(elements)
        /\ NodeAndEdgeIdsApart(rendered)
        /\ \A f, g, h \in SessionFrames :
              generateNodeId(f) # EdgeId(generateNodeId(g), generateNodeId(h))
        /\ CountSum(rendered, 1, FALSE) <= Cardinality(FrameOccurrences)
        /\ CountSum(rendered, 1, TRUE) <= Cardinality(PairOccurrences)
        /\ (PairOccurrences # {}) = (EdgeIndices(rendered) # {})

\* C29 witness: the pair of methods a.b and b has been merged twice and
\* rendered: two nodes and their edge, each with count 2.
C29_Witness ==
    /\ Quiescent
    /\ Len(log) = 2
    /\ log[1] = <<FrameA1, FrameB>>
    /\ log[2] = log[1]
    /\ Len(elements) = 3
    /\ CountSum(elements, 1, FALSE) = 4
    /\ CountSum(elements, 1, TRUE) = 2

====
